---- MODULE Spec2Model ----
(***************************************************************************)
(* Model of src/inference/rank_model.py: the scoring pipeline of           *)
(* MatroyshkaReranker.compute_score, with the sequence builder of both     *)
(* batching strategies, the collater and last_logit_pool.                  *)
(*                                                                         *)
(* Token ids are integers.  A text is a record [id, chars, toks]: its      *)
(* character length (what _text_length measures) and the number of tokens  *)
(* the tokenizer produces for it.  A score (a float read from the          *)
(* backend's logits) is the record [ids, pos, tok, layer] naming the       *)
(* batch row, the sequence position and the vocabulary entry it was read   *)
(* from.                                                                   *)
(***************************************************************************)
EXTENDS Integers, Sequences, FiniteSets, TLC

\* ------------------------------------------------------------------ bounds
MaxPairs == 3
MaxBatch == 2
MaxLayers == 2
MaxRows == 2
MaxCols == 3

\* ------------------------------------------------------- program constants
QueryMaxLength == 32
pad_to_multiple_of == 8
bos_token_id == 1
pad_token_id == 0

\* ------------------------------------------------------------- input sets
Q1 == [id |-> 1, chars |-> 3, toks |-> 1]
Q2 == [id |-> 2, chars |-> 20, toks |-> 11]
Q3 == [id |-> 3, chars |-> 60, toks |-> 31]
P1 == [id |-> 4, chars |-> 2, toks |-> 1]
P2 == [id |-> 5, chars |-> 19, toks |-> 6]
PairUniverse == {<<Q1, P2>>, <<Q2, P1>>, <<Q3, P2>>, <<Q1, P1>>}
MaxLengths == {10, 31, 64}
SepLens == {1, 2}
Prompts == {"None", "custom"}

\* ----------------------------------------------------------------- helpers
Min(a, b) == IF a < b THEN a ELSE b

Max(a, b) == IF a > b THEN a ELSE b

RECURSIVE SeqMax(_)
SeqMax(s) == IF s = <<>> THEN 0 ELSE Max(Head(s), SeqMax(Tail(s)))

RECURSIVE SeqSum(_)
SeqSum(s) == IF s = <<>> THEN 0 ELSE Head(s) + SeqSum(Tail(s))

\* Python's seq[:n] for n >= 0.
Take(s, n) == SubSeq(s, 1, Min(n, Len(s)))

\* Python's seq[k] for a 0-based index k that may be negative.
PyAt(s, k) == IF k < 0 THEN s[Len(s) + k + 1] ELSE s[k + 1]

\* --------------------------------------------------------------- tokenizer
TextTokens(t) == [j \in 1..t.toks |-> 1000 + 100 * t.id + j]

QueryPrefix == <<31, 32>>

PassagePrefix == <<41, 42>>

\* tokenizer(text, add_special_tokens=False, max_length=n, truncation=True)
Tokenize(prefix, t, n) == Take(prefix \o TextTokens(t), n)

SepInputs(n) == [j \in 1..n |-> 10 + j]

DefaultPrompt == <<51, 52, 53>>

PromptInputs(p) == IF p = "None" THEN DefaultPrompt ELSE <<61, 62>>

\* prepare_for_model truncating the first segment instead of the second.
PrepareForModel_OnlyFirst(ids, pair_ids, n) ==
    LET total == Len(ids) + Len(pair_ids)
        remove == total - n
    IN  IF n # 0 /\ total > n /\ Len(ids) > remove
        THEN SubSeq(ids, 1, Len(ids) - remove) \o pair_ids
        ELSE ids \o pair_ids

\* tokenizer.prepare_for_model(ids, pair_ids, truncation='only_second',
\* max_length=n, add_special_tokens=False)['input_ids']: tokens are removed
\* from the right end of the second segment, and only when the second segment
\* is longer than the number of tokens to remove.
PrepareForModel(ids, pair_ids, n) ==
    LET total == Len(ids) + Len(pair_ids)
        remove == total - n
    IN  IF n # 0 /\ total > n /\ Len(pair_ids) > remove
        THEN ids \o SubSeq(pair_ids, 1, Len(pair_ids) - remove)
        ELSE ids \o pair_ids

\* An encoding as the collater receives it.
Encoding(ids) ==
    [ty |-> "enc", input_ids |-> ids, attention_mask |-> [j \in 1..Len(ids) |-> 1]]

PyInt(n) == [ty |-> "int", v |-> n]

\* ------------------------------------------------------- sequence builder
\* DatasetForReranker.__init__: the encode budget of the data-loader path.
DatasetEncodeMaxLength(max_len, sep_inputs, prompt_inputs) ==
    max_len - Len(sep_inputs) - Len(prompt_inputs)

\* compute_score, synchronous path: the encode budget.
SyncEncodeMaxLength(max_len, sep_inputs, prompt_inputs) ==
    max_len + Len(sep_inputs) + Len(prompt_inputs)

\* QueryLength without the separator.
QueryLength_NoSep(query_inputs, sep_inputs) ==
    Len(<<bos_token_id>> \o query_inputs)

\* The query-span marker both paths return.
QueryLength(query_inputs, sep_inputs) ==
    Len(<<bos_token_id>> \o query_inputs \o sep_inputs)

\* The suffix marker both paths return.
PromptLength(sep_inputs, prompt_inputs) == Len(sep_inputs \o prompt_inputs)

\* The token ids of one example, given the budget.
BuildIds(query_inputs, passage_inputs, sep_inputs, prompt_inputs, budget) ==
    PrepareForModel(<<bos_token_id>> \o query_inputs,
                    sep_inputs \o passage_inputs, budget)
        \o sep_inputs \o prompt_inputs

\* DatasetForReranker.__getitem__: (item, query length, suffix length).
GetItem(pair, max_len, p, sepl) ==
    LET sep_inputs == SepInputs(sepl)
        prompt_inputs == PromptInputs(p)
        query_inputs == Tokenize(QueryPrefix, pair[1], QueryMaxLength)
        passage_inputs == Tokenize(PassagePrefix, pair[2], max_len)
        budget == DatasetEncodeMaxLength(max_len, sep_inputs, prompt_inputs)
    IN  << Encoding(BuildIds(query_inputs, passage_inputs, sep_inputs,
                             prompt_inputs, budget)),
           PyInt(QueryLength(query_inputs, sep_inputs)),
           PyInt(PromptLength(sep_inputs, prompt_inputs)) >>

\* compute_score, synchronous path: one pass of the per-example loop.  The
\* caller's prompt is overwritten by the default prompt before it is used.
SyncItem(pair, max_len, sepl) ==
    LET sep_inputs == SepInputs(sepl)
        prompt_inputs == DefaultPrompt
        query_inputs == Tokenize(QueryPrefix, pair[1], QueryMaxLength)
        passage_inputs == Tokenize(PassagePrefix, pair[2], max_len)
        budget == SyncEncodeMaxLength(max_len, sep_inputs, prompt_inputs)
    IN  [item |-> Encoding(BuildIds(query_inputs, passage_inputs, sep_inputs,
                                    prompt_inputs, budget)),
         query_length |-> QueryLength(query_inputs, sep_inputs),
         prompt_length |-> PromptLength(sep_inputs, prompt_inputs)]

\* ---------------------------------------------------------------- collater
\* tokenizer.pad(features, padding=True, max_length=..., pad_to_multiple_of=8)
\* with padding_side = 'right': padding=True pads to the longest example and
\* max_length is ignored; the target is rounded up to a multiple of 8.
TokenizerPad(features, max_len) ==
    LET longest == SeqMax([k \in 1..Len(features) |-> Len(features[k].input_ids)])
        target == IF longest % pad_to_multiple_of # 0
                  THEN ((longest \div pad_to_multiple_of) + 1) * pad_to_multiple_of
                  ELSE longest
        PadRow(row, fill) == row \o [j \in 1..(target - Len(row)) |-> fill]
    IN  [input_ids |-> [k \in 1..Len(features) |->
                            PadRow(features[k].input_ids, pad_token_id)],
         attention_mask |-> [k \in 1..Len(features) |->
                            PadRow(features[k].attention_mask, 0)]]

NoBatch == [input_ids |-> <<>>, attention_mask |-> <<>>]

\* collater.__call__(data): data[0], data[1], data[2] are read as the
\* features, the query lengths and the prompt lengths.  A list shorter than
\* three raises IndexError; tokenizer.pad raises TypeError when an element of
\* the features is not an encoding.
Collater(data, max_len) ==
    IF Len(data) < 3
    THEN [err |-> "IndexError", collected |-> NoBatch,
          query_lengths |-> <<>>, prompt_lengths |-> <<>>]
    ELSE LET features == data[1]
         IN  IF \E k \in 1..Len(features) : features[k].ty # "enc"
             THEN [err |-> "TypeError", collected |-> NoBatch,
                   query_lengths |-> <<>>, prompt_lengths |-> <<>>]
             ELSE [err |-> "none", collected |-> TokenizerPad(features, max_len),
                   query_lengths |-> data[2], prompt_lengths |-> data[3]]

\* --------------------------------------------------------- score extractor
\* last_logit_pool without the left-padding branch.
LastLogitPool_RightOnly(logits, attention_mask) ==
    [i \in 1..Len(logits) |-> PyAt(logits[i], SeqSum(attention_mask[i]) - 1)]

\* last_logit_pool(logits, attention_mask): logits[i][p] is the logit vector
\* of row i at position p.
LastLogitPool(logits, attention_mask) ==
    LET rows == Len(attention_mask)
        left_padding ==
            SeqSum([i \in 1..rows |-> PyAt(attention_mask[i], -1)]) = rows
    IN  IF left_padding
        THEN [i \in 1..Len(logits) |-> PyAt(logits[i], -1)]
        ELSE [i \in 1..Len(logits) |->
                 PyAt(logits[i], SeqSum(attention_mask[i]) - 1)]

\* The backend: one logit vector per row and position, rows in batch order;
\* in layer-wise mode one tensor and one attention mask per exit layer.
BackendLogits(input_ids, layer) ==
    [i \in 1..Len(input_ids) |->
        [p \in 1..Len(input_ids[i]) |->
            [ids |-> input_ids[i], pos |-> p, layer |-> layer]]]

Backend(batch, lw, nlayers) ==
    IF lw
    THEN [logits |-> [l \in 1..nlayers |-> BackendLogits(batch.input_ids, l)],
          attention_masks |-> [l \in 1..nlayers |-> batch.attention_mask]]
    ELSE [logits |-> BackendLogits(batch.input_ids, 0),
          attention_masks |-> <<>>]

\* scores[:, self.yes_loc].cpu().float().tolist()
YesColumn(pooled) ==
    [i \in 1..Len(pooled) |->
        [ids |-> pooled[i].ids, pos |-> pooled[i].pos,
         layer |-> pooled[i].layer, tok |-> "Yes"]]

\* logits.cpu().float().tolist() of a layer head's output
HeadList(pooled) ==
    [i \in 1..Len(pooled) |->
        [ids |-> pooled[i].ids, pos |-> pooled[i].pos,
         layer |-> pooled[i].layer, tok |-> "head"]]

\* The per-batch scores of both paths.
BatchScores(outputs, batch, lw) ==
    IF lw
    THEN [l \in 1..Len(outputs.logits) |->
             HeadList(LastLogitPool(outputs.logits[l], outputs.attention_masks[l]))]
    ELSE YesColumn(LastLogitPool(outputs.logits, batch.attention_mask))

\* all_scores after one batch.
Accumulate(acc, scores, lw) ==
    IF lw
    THEN LET base == IF Len(acc) = 0
                     THEN [l \in 1..Len(scores) |-> <<>>]
                     ELSE acc
         IN  [l \in 1..Len(base) |->
                 IF l <= Len(scores) THEN base[l] \o scores[l] ELSE base[l]]
    ELSE acc \o scores

\* ------------------------------------------------------ length-sort scheduler
\* _text_length of a string: its character count.
TextLength(t) == t.chars

SortKeys(pairs) ==
    [i \in 1..Len(pairs) |-> 0 - TextLength(pairs[i][1]) - TextLength(pairs[i][2])]

Perms(n) == {f \in [1..n -> 1..n] : \A a, b \in 1..n : a # b => f[a] # f[b]}

\* np.argsort(keys) with the default (unstable) sort kind: every index order
\* that sorts the keys ascending; the order among equal keys is not fixed.
ArgSorts(keys) ==
    {f \in Perms(Len(keys)) :
        \A a, b \in 1..Len(keys) : a < b => keys[f[a]] <= keys[f[b]]}

\* np.argsort of a sequence of distinct values.
ArgSort(s) == CHOOSE f \in ArgSorts(s) : TRUE

\* RestoreOrder indexing with the sort permutation itself.
RestoreOrder_Forward(sorted_scores, idx) ==
    [i \in 1..Len(idx) |-> sorted_scores[idx[i]]]

\* [all_scores[idx] for idx in np.argsort(length_sorted_idx)]
RestoreOrder(sorted_scores, idx) ==
    LET inv == ArgSort(idx)
    IN  [i \in 1..Len(inv) |-> sorted_scores[inv[i]]]

\* RestoreAll with the layer loop stopping after the first layer.
RestoreAll_FirstLayerOnly(acc, idx, lw) ==
    IF lw
    THEN [l \in 1..Len(acc) |-> IF l = 1 THEN RestoreOrder(acc[l], idx) ELSE acc[l]]
    ELSE RestoreOrder(acc, idx)

\* The restore step of compute_score, per layer in layer-wise mode.
RestoreAll(acc, idx, lw) ==
    IF lw
    THEN [l \in 1..Len(acc) |-> RestoreOrder(acc[l], idx)]
    ELSE RestoreOrder(acc, idx)

\* ReturnValue with the collapse of a one-element result.
ReturnValue_Collapse(acc, lw) ==
    IF ~lw /\ Len(acc) = 1
    THEN [shape |-> "scalar", value |-> acc[1]]
    ELSE [shape |-> IF lw THEN "layers" ELSE "list", value |-> acc]

\* The value compute_score returns: always the list, never a bare scalar.
ReturnValue(acc, lw) ==
    [shape |-> IF lw THEN "layers" ELSE "list", value |-> acc]

NoResult == [shape |-> "none", value |-> <<>>]

\* No DataLoader iterator: none was created, or it was torn down.
NoLoader ==
    [send_idx |-> 0, rcvd_idx |-> 0, index_queues |-> <<>>,
     data_queue |-> <<>>, task_info |-> {}]

\* ------------------------------------------------------------------- state
VARIABLES arg, batch_size, max_length, prompt, use_dataloader,
          layer_wise, num_layers, sep_len,
          sentence_pairs, length_sorted_idx, sentences_sorted, batch_start,
          data, batch_inputs, query_lengths, prompt_lengths,
          scores, all_scores, result, pc, err,
          dataloader, backend_calls

vars == <<arg, batch_size, max_length, prompt, use_dataloader,
          layer_wise, num_layers, sep_len,
          sentence_pairs, length_sorted_idx, sentences_sorted, batch_start,
          data, batch_inputs, query_lengths, prompt_lengths,
          scores, all_scores, result, pc, err,
          dataloader, backend_calls>>

inputs == <<arg, batch_size, max_length, prompt, use_dataloader,
            layer_wise, num_layers, sep_len>>

\* The requests: lists of up to MaxPairs distinct pairs.  Two of the pairs
\* have the same total character length, so the sort has ties to order.
PairLists ==
    {ps \in UNION {[1..n -> PairUniverse] : n \in 1..MaxPairs} :
        \A a, b \in 1..Len(ps) : a # b => ps[a] # ps[b]}

\* What a caller passes as sentence_pairs: a list of pairs, one pair as a
\* two-element list [q, p], or one pair as a tuple (q, p).  The field pairs
\* holds the pair or pairs passed.
Args ==
    {[form |-> "list", pairs |-> ps] : ps \in PairLists}
    \cup {[form |-> f, pairs |-> <<pr>>] :
              f \in {"single", "tuple"}, pr \in PairUniverse}

Locals0 ==
    /\ sentence_pairs = <<>>
    /\ length_sorted_idx = <<>>
    /\ sentences_sorted = <<>>
    /\ batch_start = 0
    /\ data = <<>>
    /\ query_lengths = <<>>
    /\ prompt_lengths = <<>>
    /\ scores = <<>>
    /\ all_scores = <<>>
    /\ result = NoResult
    /\ err = "none"
    /\ dataloader = NoLoader
    /\ backend_calls = <<>>

Init ==
    /\ arg \in Args
    /\ batch_size \in 1..MaxBatch
    /\ max_length \in MaxLengths
    /\ prompt \in Prompts
    /\ use_dataloader \in BOOLEAN
    /\ layer_wise \in BOOLEAN
    /\ num_layers \in 0..MaxLayers
    /\ layer_wise <=> num_layers > 0
    /\ sep_len \in SepLens
    /\ batch_inputs = NoBatch
    /\ Locals0
    /\ pc = "call"

\* compute_score, up to the branch on use_dataloader: the assertion, the
\* normalisation of a single pair, the length sort.
Enter ==
    /\ pc = "call"
    /\ IF arg.form = "tuple"
       THEN /\ pc' = "raised"
            /\ err' = "AssertionError"
            /\ UNCHANGED <<sentence_pairs, length_sorted_idx, sentences_sorted>>
       ELSE LET pairs == arg.pairs
            IN  \E idx \in ArgSorts(SortKeys(pairs)) :
                  /\ sentence_pairs' = pairs
                  /\ length_sorted_idx' = idx
                  /\ sentences_sorted' = [k \in 1..Len(idx) |-> pairs[idx[k]]]
                  /\ pc' = IF use_dataloader THEN "dataloader" ELSE "sync"
                  /\ err' = "none"
    /\ UNCHANGED <<inputs, batch_start, data, batch_inputs, query_lengths,
                   prompt_lengths, scores, all_scores, result, dataloader,
                   backend_calls>>

\* sentences_sorted[batch_start:batch_start + batch_size]
BatchSlice(sorted, start, size) ==
    SubSeq(sorted, start + 1, Min(start + size, Len(sorted)))

\* One pass of the synchronous loop: build, collate, score, accumulate.
SyncBatch ==
    /\ pc = "sync"
    /\ batch_start < Len(sentences_sorted)
    /\ LET batch_sentences == BatchSlice(sentences_sorted, batch_start, batch_size)
           built == [k \in 1..Len(batch_sentences) |->
                        SyncItem(batch_sentences[k], max_length, sep_len)]
           qls == [k \in 1..Len(built) |-> built[k].query_length]
           pls == [k \in 1..Len(built) |-> built[k].prompt_length]
           handed == << [k \in 1..Len(built) |-> built[k].item], qls, pls >>
           out == Collater(handed, max_length)
           outputs == Backend(out.collected, layer_wise, num_layers)
           sc == BatchScores(outputs, out.collected, layer_wise)
       IN  /\ data' = handed
           /\ query_lengths' = qls
           /\ prompt_lengths' = pls
           /\ IF out.err # "none"
              THEN /\ pc' = "raised"
                   /\ err' = out.err
                   /\ UNCHANGED <<batch_inputs, scores, all_scores, batch_start,
                                  backend_calls>>
              ELSE /\ batch_inputs' = out.collected
                   /\ backend_calls' = Append(backend_calls, out.collected.input_ids)
                   /\ scores' = sc
                   /\ all_scores' = Accumulate(all_scores, sc, layer_wise)
                   /\ batch_start' = batch_start + batch_size
                   /\ UNCHANGED <<pc, err>>
    /\ UNCHANGED <<inputs, sentence_pairs, length_sorted_idx, sentences_sorted,
                   result, dataloader>>

\* One batch of the data-loader path: the loader fetches dataset[i] for the
\* batch's indices, hands the list of samples to the collater, and the loop
\* body scores what the collater returns.
DataLoaderBatch ==
    /\ pc = "dataloader"
    /\ batch_start < Len(sentences_sorted)
    /\ LET batch_sentences == BatchSlice(sentences_sorted, batch_start, batch_size)
           handed == [k \in 1..Len(batch_sentences) |->
                         GetItem(batch_sentences[k], max_length, prompt, sep_len)]
           out == Collater(handed, max_length)
           outputs == Backend(out.collected, layer_wise, num_layers)
           sc == BatchScores(outputs, out.collected, layer_wise)
       IN  /\ data' = handed
           /\ IF out.err # "none"
              THEN /\ pc' = "raised"
                   /\ err' = out.err
                   /\ UNCHANGED <<batch_inputs, query_lengths, prompt_lengths,
                                  scores, all_scores, batch_start, backend_calls>>
              ELSE /\ batch_inputs' = out.collected
                   /\ backend_calls' = Append(backend_calls, out.collected.input_ids)
                   /\ query_lengths' = out.query_lengths
                   /\ prompt_lengths' = out.prompt_lengths
                   /\ scores' = sc
                   /\ all_scores' = Accumulate(all_scores, sc, layer_wise)
                   /\ batch_start' = batch_start + batch_size
                   /\ UNCHANGED <<pc, err>>
    /\ UNCHANGED <<inputs, sentence_pairs, length_sorted_idx, sentences_sorted,
                   result, dataloader>>

\* After the last batch: the inverse permutation and the return.
Restore ==
    /\ pc \in {"sync", "dataloader"}
    /\ batch_start >= Len(sentences_sorted)
    /\ result' = ReturnValue(RestoreAll(all_scores, length_sorted_idx, layer_wise),
                             layer_wise)
    /\ pc' = "done"
    /\ UNCHANGED <<inputs, sentence_pairs, length_sorted_idx, sentences_sorted,
                   batch_start, data, batch_inputs, query_lengths,
                   prompt_lengths, scores, all_scores, err, dataloader,
                   backend_calls>>

Next == Enter \/ SyncBatch \/ DataLoaderBatch \/ Restore

Spec == Init /\ [][Next]_vars

\* ------------------------------------ the data-loader path with its workers
\* DataLoader(dataset, shuffle=False, batch_size=batch_size, drop_last=False,
\* num_workers=min(batch_size, 16), collate_fn=collater(...)): the worker
\* processes fetch and collate batches while the loop of compute_score
\* consumes them.
NumWorkers(size) == Min(size, 16)

\* The batches of the sequential sampler with drop_last=False.
NumBatches(n, size) == (n + size - 1) \div size

\* The loader keeps two batches per worker in flight.
Prefetch(num_workers) == 2 * num_workers

\* _try_put_index: the next batch index goes to the workers in turn.
TryPutIndex(dl, nb) ==
    IF dl.send_idx < nb
    THEN LET w == (dl.send_idx % Len(dl.index_queues)) + 1
         IN  [dl EXCEPT !.index_queues[w] = Append(@, dl.send_idx),
                        !.send_idx = @ + 1]
    ELSE dl

RECURSIVE TryPutIndexTimes(_, _, _)
TryPutIndexTimes(dl, nb, times) ==
    IF times = 0 THEN dl ELSE TryPutIndexTimes(TryPutIndex(dl, nb), nb, times - 1)

\* iter(dataloader): the workers start and the first indices are handed out.
LoaderStart ==
    /\ pc = "dataloader"
    /\ dataloader.index_queues = <<>>
    /\ LET num_workers == NumWorkers(batch_size)
           nb == NumBatches(Len(sentences_sorted), batch_size)
           fresh == [NoLoader EXCEPT
                        !.index_queues = [w \in 1..num_workers |-> <<>>]]
       IN  dataloader' = TryPutIndexTimes(fresh, nb, Prefetch(num_workers))
    /\ UNCHANGED <<inputs, sentence_pairs, length_sorted_idx, sentences_sorted,
                   batch_start, data, batch_inputs, query_lengths,
                   prompt_lengths, scores, all_scores, result, pc, err,
                   backend_calls>>

\* One worker takes its next batch index, fetches dataset[i] for the batch's
\* indices, calls the collater on the list of samples and puts the outcome
\* (the collated batch, or the exception it raised) on the result queue.
WorkerFetch ==
    /\ pc = "dataloader"
    /\ \E w \in 1..Len(dataloader.index_queues) :
          /\ dataloader.index_queues[w] # <<>>
          /\ LET idx == Head(dataloader.index_queues[w])
                 batch_sentences ==
                     BatchSlice(sentences_sorted, idx * batch_size, batch_size)
                 handed == [k \in 1..Len(batch_sentences) |->
                               GetItem(batch_sentences[k], max_length, prompt,
                                       sep_len)]
                 out == Collater(handed, max_length)
             IN  dataloader' =
                     [dataloader EXCEPT
                         !.index_queues[w] = Tail(@),
                         !.data_queue = Append(@, [idx |-> idx, out |-> out])]
    /\ UNCHANGED <<inputs, sentence_pairs, length_sorted_idx, sentences_sorted,
                   batch_start, data, batch_inputs, query_lengths,
                   prompt_lengths, scores, all_scores, result, pc, err,
                   backend_calls>>

\* One step of `for data in dataloader` and its body.  The loader returns
\* the outcome of batch rcvd_idx: from the outcomes set aside if it is there,
\* else it takes the next outcome off the result queue and sets it aside if
\* it belongs to a later batch.  A worker's exception is raised again in the
\* caller, which tears the loader down; a collated batch is scored.
LoaderNext ==
    /\ pc = "dataloader"
    /\ dataloader.index_queues # <<>>
    /\ dataloader.rcvd_idx < NumBatches(Len(sentences_sorted), batch_size)
    /\ LET aside == {r \in dataloader.task_info : r.idx = dataloader.rcvd_idx}
       IN  /\ aside = {} => dataloader.data_queue # <<>>
           /\ LET r == IF aside # {}
                       THEN CHOOSE x \in aside : TRUE
                       ELSE Head(dataloader.data_queue)
                  taken == IF aside # {}
                           THEN [dataloader EXCEPT !.task_info = @ \ aside]
                           ELSE [dataloader EXCEPT !.data_queue = Tail(@)]
                  outputs == Backend(r.out.collected, layer_wise, num_layers)
                  sc == BatchScores(outputs, r.out.collected, layer_wise)
              IN  IF r.idx # dataloader.rcvd_idx
                  THEN /\ dataloader' =
                              [taken EXCEPT !.task_info = @ \cup {r}]
                       /\ UNCHANGED <<batch_inputs, query_lengths,
                                      prompt_lengths, scores, all_scores,
                                      batch_start, backend_calls, pc, err>>
                  ELSE IF r.out.err # "none"
                  THEN /\ dataloader' = NoLoader
                       /\ pc' = "raised"
                       /\ err' = r.out.err
                       /\ UNCHANGED <<batch_inputs, query_lengths,
                                      prompt_lengths, scores, all_scores,
                                      batch_start, backend_calls>>
                  ELSE /\ dataloader' =
                              TryPutIndex(
                                  [taken EXCEPT !.rcvd_idx = @ + 1],
                                  NumBatches(Len(sentences_sorted), batch_size))
                       /\ batch_inputs' = r.out.collected
                       /\ query_lengths' = r.out.query_lengths
                       /\ prompt_lengths' = r.out.prompt_lengths
                       /\ backend_calls' =
                              Append(backend_calls, r.out.collected.input_ids)
                       /\ scores' = sc
                       /\ all_scores' = Accumulate(all_scores, sc, layer_wise)
                       /\ batch_start' = batch_start + batch_size
                       /\ UNCHANGED <<pc, err>>
    /\ UNCHANGED <<inputs, sentence_pairs, length_sorted_idx, sentences_sorted,
                   data, result>>

NextLoader == Enter \/ SyncBatch \/ LoaderStart \/ WorkerFetch \/ LoaderNext
                  \/ Restore

SpecLoader == Init /\ [][NextLoader]_vars

\* ------------------------------------------------- the extraction step alone
\* last_logit_pool applied to an arbitrary attention mask (left-padded,
\* right-padded or mixed), as the single-layer branch of the loop applies it.
Masks ==
    UNION {[1..r -> [1..c -> {0, 1}]] : r \in 1..MaxRows, c \in 1..MaxCols}

MaskedBatch(m) ==
    [input_ids |-> [i \in 1..Len(m) |->
                       [p \in 1..Len(m[i]) |->
                           IF m[i][p] = 1 THEN 100 + i ELSE pad_token_id]],
     attention_mask |-> m]

InitPool ==
    /\ arg = [form |-> "list", pairs |-> <<>>]
    /\ batch_size = 1
    /\ max_length = 0
    /\ prompt = "None"
    /\ use_dataloader = FALSE
    /\ layer_wise = FALSE
    /\ num_layers = 0
    /\ sep_len = 1
    /\ \E m \in Masks : batch_inputs = MaskedBatch(m)
    /\ Locals0
    /\ pc = "pool"

PoolStep ==
    /\ pc = "pool"
    /\ scores' = BatchScores(Backend(batch_inputs, layer_wise, num_layers),
                             batch_inputs, layer_wise)
    /\ pc' = "pooled"
    /\ UNCHANGED <<inputs, sentence_pairs, length_sorted_idx, sentences_sorted,
                   batch_start, data, batch_inputs, query_lengths,
                   prompt_lengths, all_scores, result, err, dataloader,
                   backend_calls>>

NextPool == PoolStep

SpecPool == InitPool /\ [][NextPool]_vars

\* ------------------------------------------------------ reading the state
StartsWith(s, pre) == Len(s) >= Len(pre) /\ SubSeq(s, 1, Len(pre)) = pre

EndsWith(s, suf) ==
    Len(s) >= Len(suf) /\ SubSeq(s, Len(s) - Len(suf) + 1, Len(s)) = suf

Unpad(ids) == SelectSeq(ids, LAMBDA t : t # pad_token_id)

\* The examples of the batch built last, in either strategy.
NumExamples ==
    IF data = <<>> THEN 0 ELSE IF use_dataloader THEN Len(data) ELSE Len(data[1])

ExampleItem(k) == IF use_dataloader THEN data[k][1] ELSE data[1][k]

ExampleQueryLength(k) == IF use_dataloader THEN data[k][2].v ELSE data[2][k]

ExamplePromptLength(k) == IF use_dataloader THEN data[k][3].v ELSE data[3][k]

SliceStart == IF err = "none" THEN batch_start - batch_size ELSE batch_start

ExamplePair(k) == sentences_sorted[SliceStart + k]

\* What the strategy in use is given to work with.
PathPrompt == IF use_dataloader THEN PromptInputs(prompt) ELSE DefaultPrompt

PathBudget ==
    IF use_dataloader
    THEN DatasetEncodeMaxLength(max_length, SepInputs(sep_len), PathPrompt)
    ELSE SyncEncodeMaxLength(max_length, SepInputs(sep_len), PathPrompt)

FullQuery(pair) == QueryPrefix \o TextTokens(pair[1])

FullPassage(pair) == PassagePrefix \o TextTokens(pair[2])

CappedQuery(pair) == Take(FullQuery(pair), QueryMaxLength)

\* The ids the strategy in use builds for a pair.
ExpectedIds(pair) ==
    IF use_dataloader
    THEN GetItem(pair, max_length, prompt, sep_len)[1].input_ids
    ELSE SyncItem(pair, max_length, sep_len).item.input_ids

\* A score read for `pair` from the last real token of its row.
ScoreOfPair(sc, pair) ==
    /\ Unpad(sc.ids) = ExpectedIds(pair)
    /\ sc.pos = Len(ExpectedIds(pair))

\* ------------------------------------------------------------------ claims

\* C1: in single-layer mode compute_score returns exactly len(pairs) scores
\* and entry i is the score the backend produced for pairs[i], wherever the
\* descending-length sort placed that pair; np.argsort(length_sorted_idx) is
\* the inverse of the sort permutation.
C1_OutputInInputOrder ==
    (pc = "done" /\ ~layer_wise) =>
        /\ Len(result.value) = Len(sentence_pairs)
        /\ \A i \in 1..Len(sentence_pairs) :
              /\ ScoreOfPair(result.value[i], sentence_pairs[i])
              /\ result.value[i].tok = "Yes"
        /\ \A k \in 1..Len(length_sorted_idx) :
              ArgSort(length_sorted_idx)[length_sorted_idx[k]] = k

\* C1 witness: a finished single-layer call over three pairs, in two batches,
\* whose sort permutation is not its own inverse.
C1_Witness ==
    /\ pc = "done"
    /\ ~layer_wise
    /\ Len(sentence_pairs) = 3
    /\ batch_size = 2
    /\ \E k \in 1..3 : length_sorted_idx[length_sorted_idx[k]] # k

\* C2: every built token sequence, in the synchronous path and in the
\* data-loader path, has at most max_length tokens.
C2_TruncationInvariant ==
    \A k \in 1..NumExamples : Len(ExampleItem(k).input_ids) <= max_length

\* The smallest multiple of 8 that is >= n.
SmallestMultipleAtLeast(n) ==
    CHOOSE m \in 0..(n + pad_to_multiple_of) :
        m % pad_to_multiple_of = 0 /\ m >= n /\ m - pad_to_multiple_of < n

LongestExample == SeqMax([k \in 1..NumExamples |-> Len(ExampleItem(k).input_ids)])

\* C3: every row of the padded input_ids and attention_mask has the same
\* length, the smallest multiple of 8 that is >= min(max_length, longest
\* example of the batch).
C3_PaddingAlignment ==
    (pc \in {"sync", "dataloader", "done"} /\ batch_inputs # NoBatch) =>
        \A i \in 1..Len(batch_inputs.input_ids) :
            /\ Len(batch_inputs.input_ids[i]) =
                   SmallestMultipleAtLeast(Min(max_length, LongestExample))
            /\ Len(batch_inputs.attention_mask[i]) =
                   SmallestMultipleAtLeast(Min(max_length, LongestExample))

\* C4: when the last column of the attention mask is 1 in every row, the
\* logits of the final position are selected for every row; otherwise the
\* logits at position sum(row_mask) - 1 (0-based; for an all-zero row the
\* index -1, the final position) are selected for each row on its own.
C4_PositionSelection ==
    pc = "pooled" =>
        LET m == batch_inputs.attention_mask
            cols == Len(m[1])
        IN  /\ Len(scores) = Len(m)
            /\ \A i \in 1..Len(m) :
                  /\ scores[i].ids = batch_inputs.input_ids[i]
                  /\ IF \A r \in 1..Len(m) : m[r][cols] = 1
                     THEN scores[i].pos = cols
                     ELSE IF SeqSum(m[i]) = 0
                          THEN scores[i].pos = cols
                          ELSE scores[i].pos - 1 = SeqSum(m[i]) - 1

\* C4 witness: a pooled left-padded batch whose rows hold different numbers
\* of real tokens.
C4_Witness ==
    /\ pc = "pooled"
    /\ LET m == batch_inputs.attention_mask
       IN  /\ Len(m) = 2
           /\ \A r \in 1..2 : m[r][Len(m[r])] = 1
           /\ m[1][1] = 0
           /\ SeqSum(m[1]) # SeqSum(m[2])

\* C5: in layer-wise mode compute_score returns one list per exit layer the
\* backend returned, each of length len(pairs), and entry i of each is the
\* score of pairs[i] at that layer, over several batches and a final partial
\* batch too.
C5_LayerWiseShape ==
    (pc = "done" /\ layer_wise) =>
        /\ result.shape = "layers"
        /\ Len(result.value) = num_layers
        /\ \A l \in 1..Len(result.value) :
              /\ Len(result.value[l]) = Len(sentence_pairs)
              /\ \A i \in 1..Len(sentence_pairs) :
                    /\ Unpad(result.value[l][i].ids) = ExpectedIds(sentence_pairs[i])
                    /\ result.value[l][i].layer = l

\* C5 witness: a finished layer-wise call with two exit layers over three
\* pairs in batches of two (a full batch, then a partial one), whose sort
\* permutation is not its own inverse.
C5_Witness ==
    /\ pc = "done"
    /\ layer_wise
    /\ num_layers = 2
    /\ Len(sentence_pairs) = 3
    /\ batch_size = 2
    /\ \E k \in 1..3 : length_sorted_idx[length_sorted_idx[k]] # k

\* C6: the two strategies hand the backend the same batches: for the batch
\* built last, the collater accepts it, and the other strategy builds the
\* same token ids and the same markers for the same pairs.
C6_StrategiesEquivalent ==
    data # <<>> =>
        /\ err = "none"
        /\ \A k \in 1..NumExamples :
              LET dl == GetItem(ExamplePair(k), max_length, prompt, sep_len)
                  sy == SyncItem(ExamplePair(k), max_length, sep_len)
              IN  /\ dl[1] = sy.item
                  /\ dl[2].v = sy.query_length
                  /\ dl[3].v = sy.prompt_length

\* The passage part of a built sequence: what lies between the query span
\* and the suffix.
Middle(ids, pair) ==
    SubSeq(ids, 1 + Len(CappedQuery(pair)) + sep_len + 1,
           Len(ids) - sep_len - Len(PathPrompt))

\* The sequence is bos + capped query + separator + a prefix of the passage
\* + separator + prompt.
Unshortened(ids, pair) ==
    /\ StartsWith(ids, <<bos_token_id>> \o CappedQuery(pair) \o SepInputs(sep_len))
    /\ EndsWith(ids, SepInputs(sep_len) \o PathPrompt)
    /\ Len(ids) >= 1 + Len(CappedQuery(pair)) + 2 * sep_len + Len(PathPrompt)
    /\ StartsWith(FullPassage(pair), Middle(ids, pair))

\* C7 as stated: for every input whose query has at most 32 tokens, the full
\* query, the separator after it and the separator + prompt suffix appear
\* unshortened in the built sequence, and only passage tokens are dropped.
C7_QueryProtection_Original ==
    \A k \in 1..NumExamples :
        Len(FullQuery(ExamplePair(k))) <= QueryMaxLength =>
            /\ CappedQuery(ExamplePair(k)) = FullQuery(ExamplePair(k))
            /\ Unshortened(ExampleItem(k).input_ids, ExamplePair(k))

\* C7 amended: the query is cut only by its 32-token cap and the suffix is
\* never shortened; when the encode budget is at least the length of
\* bos + query + separator, the truncation removes passage tokens only, so
\* the query, the separator after it and the suffix appear unshortened.
C7_QueryProtection ==
    \A k \in 1..NumExamples :
        LET ids == ExampleItem(k).input_ids
            pair == ExamplePair(k)
        IN  /\ StartsWith(ids, <<bos_token_id>> \o CappedQuery(pair))
            /\ EndsWith(ids, SepInputs(sep_len) \o PathPrompt)
            /\ Len(FullQuery(pair)) <= QueryMaxLength =>
                   CappedQuery(pair) = FullQuery(pair)
            /\ PathBudget >= 1 + Len(CappedQuery(pair)) + sep_len =>
                   Unshortened(ids, pair)

\* C7 witness: an example whose query is under the cap and whose passage was
\* truncated by the budget, with room left for bos + query + separator.
C7_Witness ==
    \E k \in 1..NumExamples :
        LET ids == ExampleItem(k).input_ids
            pair == ExamplePair(k)
        IN  /\ Len(FullQuery(pair)) <= QueryMaxLength
            /\ PathBudget >= 1 + Len(FullQuery(pair)) + sep_len
            /\ Len(Middle(ids, pair)) < Len(Take(FullPassage(pair), max_length))
            /\ Len(Middle(ids, pair)) > 0

RetainedPassage(ids, pair) ==
    LET passage_tokens == {FullPassage(pair)[j] : j \in 1..Len(FullPassage(pair))}
    IN  Len(SelectSeq(ids, LAMBDA t : t \in passage_tokens))

\* The markers describe the built sequence exactly.
MarkersExact(k) ==
    LET ids == ExampleItem(k).input_ids
        pair == ExamplePair(k)
        ql == ExampleQueryLength(k)
        pl == ExamplePromptLength(k)
    IN  /\ ql <= Len(ids)
        /\ pl <= Len(ids)
        /\ SubSeq(ids, 1, ql) =
               <<bos_token_id>> \o CappedQuery(pair) \o SepInputs(sep_len)
        /\ SubSeq(ids, Len(ids) - pl + 1, Len(ids)) =
               SepInputs(sep_len) \o PathPrompt
        /\ ql + RetainedPassage(ids, pair) + pl = Len(ids)

\* C9 as stated: for every built example, also when the passage is
\* truncated, the markers describe the built sequence exactly.
C9_MarkerExactness_Original == \A k \in 1..NumExamples : MarkersExact(k)

\* C9 amended: the markers are len(bos + query + separator) and
\* len(separator + prompt); they describe the built sequence exactly whenever
\* the encode budget is at least the length of bos + query + separator.
C9_MarkerExactness ==
    \A k \in 1..NumExamples :
        /\ ExampleQueryLength(k) = 1 + Len(CappedQuery(ExamplePair(k))) + sep_len
        /\ ExamplePromptLength(k) = sep_len + Len(PathPrompt)
        /\ PathBudget >= 1 + Len(CappedQuery(ExamplePair(k))) + sep_len =>
               MarkersExact(k)

\* C9 witness: an example of the data-loader path whose passage was truncated
\* and whose markers are exact.
C9_Witness ==
    \E k \in 1..NumExamples :
        /\ use_dataloader
        /\ PathBudget >= 1 + Len(CappedQuery(ExamplePair(k))) + sep_len
        /\ RetainedPassage(ExampleItem(k).input_ids, ExamplePair(k)) > 0
        /\ RetainedPassage(ExampleItem(k).input_ids, ExamplePair(k))
               < Len(Take(FullPassage(ExamplePair(k)), max_length))
        /\ MarkersExact(k)

\* C10: for every batch of N built examples given to the collater by either
\* strategy, the padded batch has N rows, row i holds example i's tokens,
\* and the query lengths and prompt lengths have N entries, entry i being
\* example i's marker.
C10_CollaterKeepsBookkeeping ==
    data # <<>> =>
        /\ err = "none"
        /\ Len(batch_inputs.input_ids) = NumExamples
        /\ Len(batch_inputs.attention_mask) = NumExamples
        /\ Len(query_lengths) = NumExamples
        /\ Len(prompt_lengths) = NumExamples
        /\ \A i \in 1..NumExamples :
              /\ Unpad(batch_inputs.input_ids[i]) = ExampleItem(i).input_ids
              /\ query_lengths[i] = ExampleQueryLength(i)
              /\ prompt_lengths[i] = ExamplePromptLength(i)

\* The batches of the length-sorted list: contiguous slices of batch_size
\* pairs, the last one holding what is left.
SortedBatches ==
    [b \in 1..NumBatches(Len(sentences_sorted), batch_size) |->
        BatchSlice(sentences_sorted, (b - 1) * batch_size, batch_size)]

\* The backend call `call` was made on exactly the pairs of `batch`, in order.
CallIsBatch(call, batch) ==
    /\ Len(call) = Len(batch)
    /\ \A k \in 1..Len(batch) : Unpad(call[k]) = ExpectedIds(batch[k])

\* The pairs of the first n batches.
PairsInBatches(n) ==
    Min(n * batch_size, Len(sentences_sorted))

\* The scores concatenated so far are those of the first n sorted pairs, entry
\* k being the score of the k-th sorted pair (per exit layer in layer-wise
\* mode).
ScoresAligned(n) ==
    IF layer_wise
    THEN \A l \in 1..Len(all_scores) :
            /\ Len(all_scores[l]) = n
            /\ \A k \in 1..n :
                  /\ Unpad(all_scores[l][k].ids) = ExpectedIds(sentences_sorted[k])
                  /\ all_scores[l][k].layer = l
    ELSE /\ Len(all_scores) = n
         /\ \A k \in 1..n : ScoreOfPair(all_scores[k], sentences_sorted[k])

\* The order part of C11 alone: whatever has been scored so far was scored
\* in the order of the length-sorted list.
CallsInSortedOrder ==
    (pc # "call" /\ arg.form # "tuple") =>
        /\ Len(backend_calls) <= Len(SortedBatches)
        /\ \A b \in 1..Len(backend_calls) :
              CallIsBatch(backend_calls[b], SortedBatches[b])
        /\ ScoresAligned(PairsInBatches(Len(backend_calls)))

\* C11: in both strategies, and for every interleaving of the loading
\* workers, the backend is invoked on the batches of the length-sorted list
\* in their order, the batches being contiguous slices of at most batch_size
\* pairs; no batch is dropped, so a call that has ended has put every sorted
\* pair in exactly one backend call; and before the inverse permutation is
\* applied entry k of the concatenated scores is the score of the k-th sorted
\* pair.
C11_OrderingGuarantee ==
    /\ CallsInSortedOrder
    /\ (pc \in {"done", "raised"} /\ arg.form # "tuple") =>
           Len(backend_calls) = Len(SortedBatches)

====
